---- MODULE Spec2Model ----
(***************************************************************************)
(* Channel packing on a track grid (utils/lib/rr_graph/channel.py).        *)
(*                                                                         *)
(* A Channel is a straight segment between two grid points with an         *)
(* optional track index.  A ChannelGrid maps every position of a           *)
(* rectangle to a list of tracks; add_channel packs a channel into the     *)
(* lowest track that is free along its whole span.                         *)
(***************************************************************************)
EXTENDS Integers, Sequences, FiniteSets, TLC

VARIABLES
    chan_type,   \* ChannelGrid.chan_type
    size,        \* ChannelGrid.size
    grid,        \* the dict itself: Pos -> list of (None | Channel)
    placed,      \* the channels add_channel has returned, in order
    ncalls,      \* the number of calls made so far
    arg,         \* the argument(s) of the last call
    ret,         \* the value the last call returned (None if it raised)
    exc          \* the exception the last call raised ("none" if it returned)

vars == <<chan_type, size, grid, placed, ncalls, arg, ret, exc>>

----------------------------------------------------------------------------
(* Bounds of the model *)

SizeX == 2
SizeY == 1
MaxCalls == 3
LineLen == 3
MaxLineCalls == 4
MaxRangeCalls == 2
MaxCoord == 2
MaxIdx == 1
\* the side of the square grid, and the number of calls, of SpecSquare
Side == 2
MaxSquareCalls == 2

----------------------------------------------------------------------------
(* Values *)

\* Python's None, as a track entry, an argument or a returned value
None == [none |-> TRUE]

\* idx = None: the channel has no track index yet
NoIdx == 0 - 1

Type_X == "CHANX"
Type_Y == "CHANY"

Direction_INC == "INC_DIR"
Direction_DEC == "DEC_DIR"

Pos(x, y) == [x |-> x, y |-> y]

Min(a, b) == IF a < b THEN a ELSE b
Max(a, b) == IF a > b THEN a ELSE b
Abs(a) == IF a < 0 THEN 0 - a ELSE a

----------------------------------------------------------------------------
(* Channel *)

\* a test that rejects a pair unless both coordinates agree ("or" for "and")
NotStraight_or(start, end) == start.x # end.x \/ start.y # end.y

\* Channel.__new__: the straightness test
NotStraight(start, end) == start.x # end.x /\ start.y # end.y

\* Channel.__new__: the object built when the test passes
Channel(start, end, idx, id_override) ==
    [start |-> start, end |-> end, idx |-> idx, id_override |-> id_override]

\* Channel(start, end, idx, id_override): the exception raised or the object
Channel_new(start, end, idx, id_override) ==
    IF NotStraight(start, end)
    THEN [exc |-> "ChannelNotStraight", ret |-> None]
    ELSE [exc |-> "none", ret |-> Channel(start, end, idx, id_override)]

\* a type that tests the y coordinates first
type_y_first(ch) ==
    IF ch.start.y = ch.end.y THEN Type_Y ELSE Type_X

\* Channel.type
type(ch) ==
    IF ch.start.x = ch.end.x THEN Type_X ELSE Type_Y

\* Channel.start0, read with the channel's type being t
start0(ch, t) ==
    IF t = Type_Y THEN ch.start.x ELSE ch.start.y

\* Channel.end0, read with the channel's type being t
end0(ch, t) ==
    IF t = Type_Y THEN ch.end.x ELSE ch.end.y

\* Channel.common, read with the channel's type being t
common(ch, t) ==
    IF t = Type_Y THEN ch.start.y ELSE ch.start.x

\* Channel.direction
direction(ch, t) ==
    IF end0(ch, t) < start0(ch, t) THEN Direction_DEC ELSE Direction_INC

\* Channel.length
length(ch, t) == Abs(end0(ch, t) - start0(ch, t))

\* Channel.update_idx
update_idx(ch, idx) == Channel(ch.start, ch.end, idx, ch.id_override)

\* an update that sets the index of the channel it is called on
update_idx_in_place(ch, idx) ==
    [self |-> [ch EXCEPT !.idx = idx], ret |-> [ch EXCEPT !.idx = idx]]

\* a call of ch.update_idx(idx): the channel it was called on, as the call
\* leaves it, and the channel returned
update_idx_call(ch, idx) ==
    [self |-> ch, ret |-> update_idx(ch, idx)]

\* static_property (lib/rr_graph/__init__.py): whether a derived accessor keeps
\* the value of its first read.  The data model has the accessors derived from
\* start and end at each read, never stored.
static_property_caches == FALSE

----------------------------------------------------------------------------
(* ChannelGrid *)

\* ChannelGrid.__init__: the keys of the dict
Keys(sz) == { Pos(x, y) : x \in 0..(sz.x - 1), y \in 0..(sz.y - 1) }

\* ChannelGrid.__init__: every position starts with an empty track list
EmptyGrid(sz) == [p \in Keys(sz) |-> <<>>]

\* a row that misses its last position (range(0, self.x - 1))
row_short(sz, y) == [i \in 1..(sz.x - 1) |-> Pos(i - 1, y)]

\* ChannelGrid.column: the positions whose lists the column is made of
column(sz, x) == [i \in 1..sz.y |-> Pos(x, i - 1)]

\* ChannelGrid.row: the positions whose lists the row is made of
row(sz, y) == [i \in 1..sz.x |-> Pos(i - 1, y)]

\* asserts.assert_len_eq: all lists of l have one length
assert_len_eq(g, l) ==
    \A i, j \in 1..Len(l) : Len(g[l[i]]) = Len(g[l[j]])

\* a slice that stops one short: l[s:e]
PySlice_exclusive(n, a, b) ==
    LET lo == IF a < 0 THEN Max(n + a, 0) ELSE Min(a, n)
        hi == IF b - 1 < 0 THEN Max(n + b - 1, 0) ELSE Min(b - 1, n)
    IN  { k \in 1..n : lo < k /\ k <= hi }

\* l[a:b] of a list of n elements, as the (1-based) places it selects
PySlice(n, a, b) ==
    LET lo == IF a < 0 THEN Max(n + a, 0) ELSE Min(a, n)
        hi == IF b < 0 THEN Max(n + b, 0) ELSE Min(b, n)
    IN  { k \in 1..n : lo < k /\ k <= hi }

\* add_channel: "while len(p) < max_idx+1: p.append(None)"
pad(p, n) ==
    IF Len(p) >= n THEN p
    ELSE [k \in 1..n |-> IF k <= Len(p) THEN p[k] ELSE None]

\* a search that never looks at the tracks: the first candidate is taken
find_idx_first(g, cells, max_idx) == max_idx

\* a search that moves up once and does not scan again ("if", not "while")
find_idx_once(g, cells, max_idx) ==
    IF \E p \in cells : pad(g[p], max_idx + 1)[max_idx + 1] # None
    THEN max_idx + 1
    ELSE max_idx

\* a search that always opens a new track above the lists of the slice
find_idx_top(g, cells, max_idx) ==
    IF cells = {} THEN max_idx
    ELSE CHOOSE n \in { Len(g[p]) : p \in cells } :
             \A p \in cells : Len(g[p]) <= n

\* add_channel: "Find a idx that this channel fits": the candidate moves up
\* whenever a cell of the slice, padded to the candidate, holds a channel there
RECURSIVE find_idx(_, _, _)
find_idx(g, cells, max_idx) ==
    IF \E p \in cells : pad(g[p], max_idx + 1)[max_idx + 1] # None
    THEN find_idx(g, cells, max_idx + 1)
    ELSE max_idx

\* a grid that takes every channel as one of its own type: no type check
effective_type_any(ct, ch) == ct

\* a grid that takes no channel of another type, whatever its length
effective_type_strict(ct, ch) ==
    IF type(ch) # ct THEN "TypeError" ELSE type(ch)

\* add_channel: the type the channel is treated as (a channel of length 0
\* takes the grid's type), or the TypeError
effective_type(ct, ch) ==
    IF type(ch) # ct
    THEN IF length(ch, type(ch)) # 0 THEN "TypeError" ELSE ct
    ELSE type(ch)

\* add_channel: s and e, after the swap of a DEC channel
span(ch, t) ==
    LET t0 == IF static_property_caches THEN type(ch) ELSE t
        s  == start0(ch, t0)
        e  == end0(ch, t0)
    IN  IF direction(ch, t0) = Direction_DEC
        THEN [s |-> e, e |-> s]
        ELSE [s |-> s, e |-> e]

Raise(g, name) == [exc |-> name, grid |-> g, ret |-> None]

\* the channel written into every list of the line ("for p in l")
store_whole_line(g, l, sl, ch, max_idx) ==
    LET new == update_idx(ch, max_idx)
        padded(p) == pad(g[p], max_idx + 1)
    IN  [exc  |-> "none",
         grid |-> [p \in DOMAIN g |->
                     IF p \in l THEN [padded(p) EXCEPT ![new.idx + 1] = new]
                     ELSE g[p]],
         ret  |-> new]

\* only the lists of the slice padded ("for p in l[s:e+1]")
store_slice_only(g, l, sl, ch, max_idx) ==
    LET new == update_idx(ch, max_idx)
        padded(p) == IF p \in sl THEN pad(g[p], max_idx + 1) ELSE g[p]
    IN
    IF \E p, q \in l : Len(padded(p)) # Len(padded(q))
    THEN Raise(g, "AssertionError")
    ELSE [exc  |-> "none",
          grid |-> [p \in DOMAIN g |->
                      IF p \in sl THEN [padded(p) EXCEPT ![new.idx + 1] = new]
                      ELSE g[p]],
          ret  |-> new]

\* every list of the grid padded ("for p in self")
store_pad_grid(g, l, sl, ch, max_idx) ==
    LET new == update_idx(ch, max_idx)
        padded(p) == pad(g[p], max_idx + 1)
    IN  [exc  |-> "none",
         grid |-> [p \in DOMAIN g |->
                     IF p \in sl THEN [padded(p) EXCEPT ![new.idx + 1] = new]
                     ELSE padded(p)],
         ret  |-> new]

\* add_channel, from "Make sure everything has the same length" on: every
\* list of the line l padded to max_idx+1, the indexed channel stored at
\* max_idx in the lists of the slice sl, and returned
store(g, l, sl, ch, max_idx) ==
    LET new == update_idx(ch, max_idx)
        padded(p) == pad(g[p], max_idx + 1)
    IN
    IF \E p, q \in l : Len(padded(p)) # Len(padded(q))
    THEN Raise(g, "AssertionError")
    ELSE [exc  |-> "none",
          grid |-> [p \in DOMAIN g |->
                      IF p \in sl THEN [padded(p) EXCEPT ![new.idx + 1] = new]
                      ELSE IF p \in l THEN padded(p)
                      ELSE g[p]],
          ret  |-> new]

\* ChannelGrid.add_channel: the exception raised or the channel returned, and
\* the grid the call leaves
add_channel(g, ct, sz, ch) ==
    IF ch.idx # NoIdx THEN Raise(g, "AssertionError")
    ELSE
    LET t == effective_type(ct, ch) IN
    IF t = "TypeError" THEN Raise(g, "TypeError")
    ELSE
    LET c == common(ch, t)
        l == IF t = Type_X THEN column(sz, c) ELSE row(sz, c)
    IN
    IF \E i \in 1..Len(l) : l[i] \notin DOMAIN g THEN Raise(g, "KeyError")
    ELSE IF ~assert_len_eq(g, l) THEN Raise(g, "AssertionError")
    ELSE
    LET se == span(ch, t) IN
    IF ~(se.e >= se.s) \/ ~(se.s < Len(l)) \/ ~(se.e < Len(l))
    THEN Raise(g, "AssertionError")
    ELSE
    LET sl == { l[k] : k \in PySlice(Len(l), se.s, se.e + 1) }
    IN  store(g, { l[k] : k \in 1..Len(l) }, sl, ch, find_idx(g, sl, 0))

\* Channel.__str__
str(ch) ==
    LET idx_str == IF ch.idx # NoIdx THEN " @" \o ToString(ch.idx) ELSE ""
    IN  IF ch.id_override # ""
        THEN ch.id_override
                 \o (IF ch.idx # NoIdx THEN "@" \o ToString(ch.idx) ELSE "")
        ELSE type(ch) \o " "
                 \o ToString(ch.start.x) \o "," \o ToString(ch.start.y)
                 \o "->"
                 \o ToString(ch.end.x) \o "," \o ToString(ch.end.y)
                 \o idx_str

\* pretty_print.get_str: the label of a track entry
get_str(ch) ==
    IF ch = None THEN ""
    ELSE IF ch.id_override # "" THEN ch.id_override
    ELSE str(ch)

\* pretty_print: the width of an entry, three more than the longest label
s_maxlen(g, sz) ==
    LET lens == {1} \cup UNION { { Len(get_str(g[p][k])) : k \in 1..Len(g[p]) } :
                                    p \in Keys(sz) }
    IN  3 + CHOOSE m \in lens : \A n \in lens : n <= m

\* pretty_print: the entry of a track of position (x, y), the format chosen
\* and the label it is given
entry(ch, x, y) ==
    IF ch = None THEN [fmt |-> "non_fmt", s |-> get_str(ch)]
    ELSE IF ch.start = ch.end THEN [fmt |-> "beg_mid_end", s |-> get_str(ch)]
    ELSE IF ch.start = Pos(x, y) THEN [fmt |-> "beg_fmt", s |-> get_str(ch)]
    ELSE IF ch.end = Pos(x, y) THEN [fmt |-> "end_fmt", s |-> get_str(ch)]
    ELSE [fmt |-> "mid_fmt", s |-> get_str(ch)]

\* pretty_print: the entries of position (x, y), a header and one per track
channels(g, x, y) ==
    <<[fmt |-> "header", s |-> ToString(x)]>>
        \o [k \in 1..Len(g[Pos(x, y)]) |-> entry(g[Pos(x, y)][k], x, y)]

\* asserts.assert_len_eq: all lists of l have one length
assert_len_eq_lists(l) ==
    \A i, j \in 1..Len(l) : Len(l[i]) = Len(l[j])

\* pretty_print: rows[y][x], the entries of position (x, y)
rows(g, sz) ==
    [r \in 1..sz.y |-> [c \in 1..sz.x |-> channels(g, c - 1, r - 1)]]

\* ChannelGrid.pretty_print: the exception raised or the text returned (the
\* lines of each display row, each the entries of its columns, with the
\* width and the grid's type that fix the formats), and the grid it leaves
pretty_print(g, ct, sz) ==
    LET rs == rows(g, sz) IN
    IF \E r \in 1..Len(rs) : ~assert_len_eq_lists(rs[r])
    THEN Raise(g, "AssertionError")
    ELSE [exc  |-> "none",
          grid |-> g,
          ret  |-> [chan_type |-> ct,
                    s_maxlen  |-> s_maxlen(g, sz),
                    text      |-> [r \in 1..Len(rs) |->
                                     [i \in 1..Len(rs[r][1]) |->
                                        [c \in 1..Len(rs[r]) |-> rs[r][c][i]]]]]]

----------------------------------------------------------------------------
(* The packing of one grid by a caller *)

\* the straight channels between positions of the grid, not yet indexed
Channels(sz, id) ==
    { Channel(se[1], se[2], NoIdx, id) :
        se \in { pq \in Keys(sz) \X Keys(sz) : ~NotStraight(pq[1], pq[2]) } }

Init ==
    /\ chan_type \in {Type_X, Type_Y}
    /\ size = [x |-> SizeX, y |-> SizeY]
    /\ grid = EmptyGrid(size)
    /\ placed = <<>>
    /\ ncalls = 0
    /\ arg = None
    /\ ret = None
    /\ exc = "none"

\* g.add_channel(ch)
AddChannel(ch) ==
    \E r \in {add_channel(grid, chan_type, size, ch)} :
    /\ grid' = r.grid
    /\ ret' = r.ret
    /\ exc' = r.exc
    /\ placed' = IF r.exc = "none" THEN Append(placed, r.ret) ELSE placed
    /\ arg' = ch
    /\ ncalls' = ncalls + 1
    /\ UNCHANGED <<chan_type, size>>

\* the caller adds any straight channel of the grid, labelled by its call
Place ==
    /\ ncalls < MaxCalls
    /\ \E ch \in Channels(size, ncalls + 1) : AddChannel(ch)

Next == Place

Spec == Init /\ [][Next]_vars

----------------------------------------------------------------------------
(* The packing of one line: a CHANY grid of a single row, by a caller who   *)
(* draws every channel from its lower to its higher end (the number of     *)
(* tracks depends on the cells covered, not on the direction; Spec draws   *)
(* both directions)                                                        *)

\* the straight channels of the grid that run in INC direction
Forward(sz, id) ==
    { ch \in Channels(sz, id) :
        direction(ch, Type_Y) = Direction_INC }

InitLine ==
    /\ chan_type = Type_Y
    /\ size = [x |-> LineLen, y |-> 1]
    /\ grid = EmptyGrid(size)
    /\ placed = <<>>
    /\ ncalls = 0
    /\ arg = None
    /\ ret = None
    /\ exc = "none"

PlaceLine ==
    /\ ncalls < MaxLineCalls
    /\ \E ch \in Forward(size, ncalls + 1) : AddChannel(ch)

NextLine == PlaceLine

SpecLine == InitLine /\ [][NextLine]_vars

----------------------------------------------------------------------------
(* The channels of the add_channel doctest, added in any order *)

Scenario ==
    << Channel(Pos(0, 5), Pos(3, 5), NoIdx, "A"),
       Channel(Pos(4, 5), Pos(6, 5), NoIdx, "B"),
       Channel(Pos(4, 5), Pos(6, 5), NoIdx, "C"),
       Channel(Pos(4, 6), Pos(6, 6), NoIdx, "D"),
       Channel(Pos(2, 5), Pos(5, 5), NoIdx, "E"),
       Channel(Pos(0, 5), Pos(2, 5), NoIdx, "F"),
       Channel(Pos(0, 5), Pos(6, 5), NoIdx, "G") >>

InitScenario ==
    /\ chan_type = Type_Y
    /\ size = [x |-> 10, y |-> 10]
    /\ grid = EmptyGrid(size)
    /\ placed = <<>>
    /\ ncalls = 0
    /\ arg = None
    /\ ret = None
    /\ exc = "none"

PlaceScenario ==
    \E k \in 1..Len(Scenario) :
        /\ \A i \in 1..Len(placed) :
              placed[i].id_override # Scenario[k].id_override
        /\ AddChannel(Scenario[k])

NextScenario == PlaceScenario

SpecScenario == InitScenario /\ [][NextScenario]_vars

----------------------------------------------------------------------------
(* A caller who hands each grid the channels of its type (as                *)
(* Channels.create_channel dispatches them), with coordinates that may     *)
(* leave the grid by one on either side                                    *)

Around(sz) == { Pos(x, y) : x \in (0 - 1)..sz.x, y \in (0 - 1)..sz.y }

ChannelsAround(sz, id, ct) ==
    { ch \in { Channel(se[1], se[2], NoIdx, id) :
                 se \in { pq \in Around(sz) \X Around(sz) :
                            ~NotStraight(pq[1], pq[2]) } } :
        type(ch) = ct }

PlaceAnywhere ==
    /\ ncalls < MaxRangeCalls
    /\ \E ch \in ChannelsAround(size, ncalls + 1, chan_type) : AddChannel(ch)

NextRange == PlaceAnywhere

SpecRange == Init /\ [][NextRange]_vars

----------------------------------------------------------------------------
(* The construction of one Channel from any two points *)

Points == { Pos(x, y) : x \in 0..MaxCoord, y \in 0..MaxCoord }

InitChannel ==
    /\ chan_type = Type_X
    /\ size = [x |-> 0, y |-> 0]
    /\ grid = EmptyGrid(size)
    /\ placed = <<>>
    /\ ncalls = 0
    /\ arg \in [start : Points, end : Points,
                idx : {NoIdx} \cup 0..MaxIdx, id_override : {"", "A"}]
    /\ ret = None
    /\ exc = "none"

\* Channel(start, end, idx, id_override) on the arguments drawn
New ==
    /\ ncalls = 0
    /\ \E r \in {Channel_new(arg.start, arg.end, arg.idx, arg.id_override)} :
          /\ ret' = r.ret
          /\ exc' = r.exc
    /\ ncalls' = 1
    /\ UNCHANGED <<chan_type, size, grid, placed, arg>>

\* the derived accessors read on the channel built
Derived ==
    /\ ncalls = 1
    /\ exc = "none"
    /\ arg' = [self |-> ret]
    /\ ret' = [type      |-> type(ret),
               start0    |-> start0(ret, type(ret)),
               end0      |-> end0(ret, type(ret)),
               common    |-> common(ret, type(ret)),
               direction |-> direction(ret, type(ret)),
               length    |-> length(ret, type(ret))]
    /\ ncalls' = 2
    /\ UNCHANGED <<chan_type, size, grid, placed, exc>>

\* update_idx(i) called on the channel built
UpdateIdx ==
    /\ ncalls = 1
    /\ exc = "none"
    /\ \E i \in 0..MaxIdx : \E r \in {update_idx_call(ret, i)} :
          /\ arg' = [self |-> r.self, idx |-> i, before |-> ret]
          /\ ret' = r.ret
    /\ ncalls' = 2
    /\ UNCHANGED <<chan_type, size, grid, placed, exc>>

NextChannel == New \/ Derived \/ UpdateIdx

SpecChannel == InitChannel /\ [][NextChannel]_vars

----------------------------------------------------------------------------
(* The packing of a square grid, of several lines in either orientation,   *)
(* by a caller who labels every other channel                              *)

\* the label the caller gives the channel of its k-th call
Labels == <<"A", "", "B", "", "C", "">>

InitSquare ==
    /\ chan_type \in {Type_X, Type_Y}
    /\ size = [x |-> Side, y |-> Side]
    /\ grid = EmptyGrid(size)
    /\ placed = <<>>
    /\ ncalls = 0
    /\ arg = None
    /\ ret = None
    /\ exc = "none"

PlaceSquare ==
    /\ ncalls < MaxSquareCalls
    /\ \E ch \in Channels(size, Labels[ncalls + 1]) : AddChannel(ch)

\* g.pretty_print()
PrettyPrint ==
    /\ \E r \in {pretty_print(grid, chan_type, size)} :
          /\ grid' = r.grid
          /\ ret' = r.ret
          /\ exc' = r.exc
    /\ arg' = [pretty_print |-> TRUE]
    /\ UNCHANGED <<chan_type, size, placed, ncalls>>

NextSquare == PlaceSquare \/ PrettyPrint

SpecSquare == InitSquare /\ [][NextSquare]_vars

----------------------------------------------------------------------------
(* What the claims speak of *)

\* the line of the grid a channel lies in: the row (a CHANY grid) or the
\* column (a CHANX grid) at its common coordinate
LineOf(c) ==
    IF chan_type = Type_Y
    THEN { Pos(x, c.start.y) : x \in 0..(size.x - 1) }
    ELSE { Pos(c.start.x, y) : y \in 0..(size.y - 1) }

\* the cells of its line a channel covers: those from s to e
Covered(c) ==
    IF chan_type = Type_Y
    THEN { Pos(x, c.start.y) :
             x \in Min(c.start.x, c.end.x)..Max(c.start.x, c.end.x) }
    ELSE { Pos(c.start.x, y) :
             y \in Min(c.start.y, c.end.y)..Max(c.start.y, c.end.y) }

\* two cells of one line
SameLine(p, q) == IF chan_type = Type_Y THEN p.y = q.y ELSE p.x = q.x

\* track i (from 0) of cell p of grid g holds no channel
Free(g, p, i) == i >= Len(g[p]) \/ g[p][i + 1] = None

\* the last call was an add_channel that returned
Returned == ret # None /\ exc = "none" /\ "idx" \in DOMAIN ret

----------------------------------------------------------------------------
(* C1: no collision.  Any two distinct channels the grid has placed have   *)
(* different indices wherever they cover the same cell, and every placed   *)
(* channel is still the one held at its index in every cell it covers: no  *)
(* later placement has overwritten its slot.                               *)

C1_NoCollision ==
    /\ \A j \in 1..Len(placed) : \A i \in 1..(j - 1) :
          \A p \in Covered(placed[i]) :
             p \in Covered(placed[j]) => placed[i].idx # placed[j].idx
    /\ \A i \in 1..Len(placed) : \A p \in Covered(placed[i]) :
          /\ Len(grid[p]) > placed[i].idx
          /\ grid[p][placed[i].idx + 1] = placed[i]

\* two placed channels share a cell
C1_Witness ==
    \E i, j \in 1..Len(placed) :
        i < j /\ Covered(placed[i]) \cap Covered(placed[j]) # {}

(* C2: minimality.  The index add_channel gives a channel is the least     *)
(* i >= 0 such that, in the grid before the call, no cell of the channel's *)
(* span holds a channel at track i.                                        *)

C2_Minimality ==
    [][ (ncalls' # ncalls /\ exc' = "none") =>
          /\ \A p \in Covered(ret') : Free(grid, p, ret'.idx)
          /\ \A i \in 0..(ret'.idx - 1) :
                \E p \in Covered(ret') : ~Free(grid, p, i) ]_vars

\* a channel placed below the top track of its line: it filled a hole
C2_Witness ==
    /\ Returned
    /\ \E p \in LineOf(ret) : Len(grid[p]) > ret.idx + 1

(* C3: no reflow.  A placed channel is held at its own track in exactly    *)
(* the cells of its span, and a step never changes a track entry that      *)
(* holds a channel, nor a channel already returned.                        *)

C3_Stored ==
    \A i \in 1..Len(placed) : \A p \in DOMAIN grid :
        /\ p \in Covered(placed[i]) =>
              /\ Len(grid[p]) > placed[i].idx
              /\ grid[p][placed[i].idx + 1] = placed[i]
        /\ \A k \in 1..Len(grid[p]) :
              grid[p][k] = placed[i] =>
                  p \in Covered(placed[i]) /\ k = placed[i].idx + 1

C3_Kept ==
    /\ \A i \in 1..Len(placed) : Len(placed') >= i /\ placed'[i] = placed[i]
    /\ \A p \in DOMAIN grid : \A k \in 1..Len(grid[p]) :
          grid[p][k] # None =>
              Len(grid'[p]) >= k /\ grid'[p][k] = grid[p][k]

C3_NoReflow == []C3_Stored /\ [][C3_Kept]_vars

\* two later channels were stacked over a cell of the first one
C3_Witness ==
    /\ Len(placed) >= 3
    /\ \E p \in Covered(placed[1]) :
          Len(grid[p]) >= 3 /\ grid[p][2] # None /\ grid[p][3] # None

(* C4: whole-grid rectangularity, as claimed: all cells of the grid have   *)
(* track lists of one length.                                              *)

C4_WholeGrid ==
    \A p, q \in DOMAIN grid : Len(grid[p]) = Len(grid[q])

(* C4, amended: all cells of one line of the grid have track lists of one  *)
(* length; cells of different lines may differ.                            *)

C4_SameLine ==
    \A p, q \in DOMAIN grid :
        SameLine(p, q) => Len(grid[p]) = Len(grid[q])

\* a packed line beside a line with fewer tracks
C4_Witness ==
    /\ Len(placed) >= 1
    /\ \E p, q \in DOMAIN grid :
          ~SameLine(p, q) /\ Len(grid[p]) # Len(grid[q])

(* C5: per-line rectangularity.  The lists of a line have one length, so   *)
(* the equal-length assertions of add_channel never fail, and after a      *)
(* call that chose index i every list of the channel's line has at least   *)
(* i+1 entries.                                                            *)

C5_LineRect ==
    /\ exc # "AssertionError"
    /\ \A p \in DOMAIN grid :
          assert_len_eq(grid, IF chan_type = Type_Y
                              THEN row(size, p.y) ELSE column(size, p.x))
    /\ Returned =>
          \A p \in LineOf(ret) : Len(grid[p]) >= ret.idx + 1

\* a cell outside the span was padded up to the new channel's track
C5_Witness ==
    /\ Returned
    /\ ret.idx >= 1
    /\ \E p \in LineOf(ret) \ Covered(ret) :
          Len(grid[p]) = ret.idx + 1 /\ grid[p][ret.idx + 1] = None

(* C6: the worked scenario.  On an empty 10x10 CHANY grid, adding A, B, C, *)
(* D, E, F, G in this order returns the indices 0, 0, 1, 0, 2, 1, 3; then  *)
(* cell (3,5) holds [A, None, E, G] and cell (7,5) holds four None.        *)

ScenarioIdx == <<0, 0, 1, 0, 2, 1, 3>>

\* the channels were added in the order of the doctest, so far
InOrder ==
    \A i \in 1..Len(placed) :
        placed[i].id_override = Scenario[i].id_override

C6_Scenario ==
    InOrder =>
       /\ \A i \in 1..Len(placed) :
             placed[i] = update_idx(Scenario[i], ScenarioIdx[i])
       /\ Len(placed) = Len(Scenario) =>
             /\ grid[Pos(3, 5)] = << update_idx(Scenario[1], 0), None,
                                     update_idx(Scenario[5], 2),
                                     update_idx(Scenario[7], 3) >>
             /\ grid[Pos(7, 5)] = << None, None, None, None >>

\* all seven channels added, in the order of the doctest
C6_Witness == InOrder /\ Len(placed) = Len(Scenario)

(* C7: track-count minimisation, as claimed: the number of tracks of a     *)
(* line equals the largest number of placed channels that cover one cell   *)
(* of the line.                                                            *)

\* the number of placed channels that cover cell p
Coverage(p) ==
    Cardinality({ i \in 1..Len(placed) : p \in Covered(placed[i]) })

\* the number of tracks of the line of cell p
Tracks(p) == Len(grid[p])

C7_TrackCountMinimal ==
    \A p \in DOMAIN grid :
        /\ \A q \in DOMAIN grid : SameLine(p, q) => Coverage(q) <= Tracks(p)
        /\ \E q \in DOMAIN grid : SameLine(p, q) /\ Coverage(q) = Tracks(p)

(* C7, amended: the number of tracks of a line is one more than the        *)
(* largest index given to a channel of the line (0 with no channel), which *)
(* is at least the largest number of placed channels that cover one cell   *)
(* of the line, and may be larger.                                         *)

C7_TrackCount ==
    \A p \in DOMAIN grid :
        /\ Coverage(p) <= Tracks(p)
        /\ \A i \in 1..Len(placed) :
              p \in LineOf(placed[i]) => placed[i].idx + 1 <= Tracks(p)
        /\ Tracks(p) > 0 =>
              \E i \in 1..Len(placed) :
                 p \in LineOf(placed[i]) /\ placed[i].idx + 1 = Tracks(p)

\* a line with more tracks than channels over any one of its cells
C7_Witness ==
    \E p \in DOMAIN grid :
        \A q \in DOMAIN grid : SameLine(p, q) => Coverage(q) < Tracks(p)

(* C8: type mismatch.  add_channel of a channel of nonzero length whose    *)
(* type differs from the grid's raises TypeError and leaves every cell as  *)
(* it was; add_channel of a nonzero-length channel of the grid's type      *)
(* never raises it.                                                        *)

\* ch has nonzero length and a type other than the grid's
Mismatched(ch) == ch.start # ch.end /\ type(ch) # chan_type

C8_Raised ==
    (arg # None /\ arg.start # arg.end) =>
        /\ Mismatched(arg) => (exc = "TypeError" /\ ret = None)
        /\ ~Mismatched(arg) => exc # "TypeError"

C8_Untouched ==
    (ncalls' # ncalls /\ Mismatched(arg')) =>
        (grid' = grid /\ placed' = placed)

C8_TypeMismatch == []C8_Raised /\ [][C8_Untouched]_vars

\* a channel of the other type refused by a grid that holds channels
C8_Witness ==
    /\ arg # None
    /\ Mismatched(arg)
    /\ exc = "TypeError"
    /\ Len(placed) >= 1

(* C9: span precondition, as claimed: add_channel of a channel whose       *)
(* normalized span [s,e] violates 0 <= s <= e < line length ends in an     *)
(* error, returns no indexed channel and changes no cell.                  *)

\* the span of ch along the lines of the grid leaves the line
SpanViolated(ch) ==
    LET s == IF chan_type = Type_Y THEN Min(ch.start.x, ch.end.x)
                                   ELSE Min(ch.start.y, ch.end.y)
        e == IF chan_type = Type_Y THEN Max(ch.start.x, ch.end.x)
                                   ELSE Max(ch.start.y, ch.end.y)
        n == IF chan_type = Type_Y THEN size.x ELSE size.y
    IN  ~(0 <= s /\ s <= e /\ e < n)

C9_Fatal ==
    (arg # None /\ SpanViolated(arg)) => (exc # "none" /\ ret = None)

C9_Untouched ==
    (ncalls' # ncalls /\ SpanViolated(arg')) => grid' = grid

C9_SpanPrecondition == []C9_Fatal /\ [][C9_Untouched]_vars

(* C10: NotStraight.  Channel(start, end) raises ChannelNotStraight        *)
(* exactly when start and end differ in x and in y; a pair that shares a   *)
(* coordinate, start = end included, gives a channel from start to end.    *)

C10_NotStraight ==
    ncalls = 1 =>
        IF arg.start.x = arg.end.x \/ arg.start.y = arg.end.y
        THEN /\ exc = "none"
             /\ ret # None
             /\ ret.start = arg.start /\ ret.end = arg.end
        ELSE exc = "ChannelNotStraight" /\ ret = None

\* a pair of points on no common row or column was refused
C10_Witness ==
    /\ ncalls = 1
    /\ exc = "ChannelNotStraight"
    /\ arg.start.x # arg.end.x /\ arg.start.y # arg.end.y

(* C11: derived accessors.  For every channel built, type is CHANX if      *)
(* start.x = end.x (so also for length 0) and CHANY otherwise; start0 and  *)
(* end0 are the y components of a CHANX channel and the x components of a  *)
(* CHANY channel; common is the coordinate start and end share; direction  *)
(* is DEC exactly when end0 < start0; length is |end0 - start0|.           *)

\* the last call read the accessors
AccessorsRead == "type" \in DOMAIN ret

Updated == "self" \in DOMAIN arg /\ "idx" \in DOMAIN arg

C12_UpdateIdx ==
    Updated =>
        /\ ret.start = arg.before.start
        /\ ret.end = arg.before.end
        /\ ret.id_override = arg.before.id_override
        /\ ret.idx = arg.idx
        /\ arg.self.idx = arg.before.idx
        /\ arg.self = arg.before

\* a labelled channel with an index was given another index
C12_Witness ==
    /\ Updated
    /\ arg.before.idx # NoIdx
    /\ arg.before.idx # arg.idx
    /\ arg.before.id_override = "A"

(* C13: line independence.  An add_channel changes only lists of the line  *)
(* (the row of a CHANY grid, the column of a CHANX grid) at the channel's  *)
(* common coordinate: the list of every position of every other line is    *)
(* the same after the call as before it.  The index given is the least one *)
(* that no channel placed before in the same line holds over a cell of the *)
(* new channel's span: it depends on the channels of its own line only.    *)

\* a channel placed before, in the line of c, holds track i over a cell of c
TakenInLine(c, i) ==
    \E k \in 1..Len(placed) :
        /\ LineOf(placed[k]) = LineOf(c)
        /\ placed[k].idx = i
        /\ Covered(placed[k]) \cap Covered(c) # {}

C13_OtherLines ==
    ncalls' # ncalls =>
        \A p \in DOMAIN grid : p \notin LineOf(arg') => grid'[p] = grid[p]

C13_OwnLine ==
    (ncalls' # ncalls /\ exc' = "none") =>
        /\ ~TakenInLine(ret', ret'.idx)
        /\ \A i \in 0..(ret'.idx - 1) : TakenInLine(ret', i)

C13_LineIndependence == [][C13_OtherLines /\ C13_OwnLine]_vars

\* a channel got index 0 next to a channel that holds index 0 in another
\* line
C13_Witness ==
    /\ Returned
    /\ Len(placed) >= 2
    /\ ret.idx = 0
    /\ \E k \in 1..(Len(placed) - 1) :
          /\ LineOf(placed[k]) # LineOf(ret)
          /\ placed[k].idx = 0
          /\ (\E p \in Covered(placed[k]) : \E q \in Covered(ret) :
                 p # q /\ (p.x = q.x \/ p.y = q.y))

(* C14: a channel of length 0 in a grid of the other type.  A CHANY grid   *)
(* takes a channel of length 0 at (x, y) (type CHANX) without an error,    *)
(* and the channel returned is held in exactly one list of the grid, that  *)
(* of (x, y), at the least index free there before the call, for every     *)
(* position of the grid, also with x # y.                                  *)

\* the positions whose list holds channel c
HeldAt(g, c) == { p \in DOMAIN g : \E k \in 1..Len(g[p]) : g[p][k] = c }

Printing == "pretty_print" \in DOMAIN arg'

C15_PrettyPrintTotal ==
    [][ Printing =>
          /\ exc' = "none"
          /\ "text" \in DOMAIN ret'
          /\ grid' = grid ]_vars

====
